---- MODULE Spec2Model ----
(***************************************************************************)
(* Environment lifecycle controller of the cloudtest harness               *)
(* (misc/python/materialize/cloudtest/util/environment.py):                *)
(* create_environment_assignment, wait_for_environmentd and                *)
(* delete_environment_assignment, together with the retry engine they      *)
(* drive.  Every external call (region API, resource store, connectivity   *)
(* probe) is one step whose response is chosen by the environment.         *)
(***************************************************************************)
EXTENDS Integers, Sequences, FiniteSets, TLC

VARIABLES
    op,        \* the operation being executed, "idle" between invocations
    pc,        \* position inside the operation
    org,       \* config.auth.organization_id of the current invocation
    image,     \* the image argument of create_environment_assignment
    budget,    \* max_attempts of the retry sequence in progress
    tolerated, \* exception kinds tolerated by the retry sequence in progress
    attempt,   \* invocations made by the retry sequence in progress
    failed,    \* of these, how many failed with a tolerated kind
    env,       \* environment_json of wait_for_environmentd
    outcome,   \* what the operation returned or raised
    calls,     \* number of external calls made by this invocation, per callee
    lastCall,  \* the most recent external call, with its response
    other,     \* the locals of a concurrent invocation that is not running now
    region     \* the region API's state of each organization's environment

\* the locals of the invocation that is running
locals == <<op, pc, org, image, budget, tolerated, attempt, failed, env,
            outcome, calls, lastCall>>

vars == <<op, pc, org, image, budget, tolerated, attempt, failed, env,
          outcome, calls, lastCall, other, region>>

----------------------------------------------------------------------------
(* Bounds of the model *)

\* largest budget given to the retry engine when it is exercised on its own
MaxBudget == 3
\* number of distinct values an operation or a resource fetch may return
MaxValue == 2

\* most attempts of one retry sequence followed when two invocations interleave
ConcMaxAttempts == 2

(* Program constants *)

\* budgets one attempt too long
CreatePollAttemptsOneMore == 10 + 1
WaitAttemptsOneMore == 600 + 1

DeleteAttemptsOneMore == 10 + 1
\* one poll fewer than the environment may take to appear
CreatePollAttemptsOneLess == 10 - 1

CreatePollAttempts == 10
WaitAttempts == 600
ConnectTimeout == 300
DeleteAttempts == 10
DeleteTimeout == 305

----------------------------------------------------------------------------
(* Values *)

\* Optional[T]: None is the empty tuple, a present value x is <<x>>
None == <<>>
Some(x) == <<x>>

Orgs == {"org1", "acme"}
Images == {None, Some(""), Some("materialize/environmentd:v1")}
Values == 1 .. MaxValue

\* failures of the HTTP client layer: a non-2xx status or a transport failure
HttpFailures == {"HTTPError", "Timeout"}
\* failure kinds an arbitrary operation handed to retry may raise
Kinds == {"AssertionError", "HTTPError", "ValueError"}

Ok(v) == [status |-> "ok", val |-> v]
Fail(k) == [status |-> "fail", kind |-> k]
Running == [status |-> "running"]
IsOk(r) == r.status = "ok"
IsFail(r) == r.status = "fail"

NoCall == [fn |-> "none"]
Callees == {"patch", "kubectl_get_retry", "kubectl_get", "get",
            "wait_for_connectable", "delete", "kubectl_get_or_none", "f"}
NoCalls == [c \in Callees |-> 0]
Count(c) == calls[c]
Bump(c) == [calls EXCEPT ![c] = @ + 1]

\* the locals between invocations
IdleLocals == <<"idle", "idle", "org1", None, 0, {}, 0, 0, None, Running,
                NoCalls, NoCall>>

\* organizations no concurrent invocation is working on
FreeOrgs == IF other[1] = "idle" THEN Orgs ELSE Orgs \ {other[3]}

----------------------------------------------------------------------------
(* The region API, as the operations see it: an environment is Absent,
   Provisioning once a PATCH is accepted, Ready later, and Absent again once
   a DELETE is accepted.  A request that fails may or may not have taken
   effect. *)

Lifecycle == {"Absent", "Provisioning", "Ready"}

Patched(o) == [region EXCEPT ![o] = IF @ = "Absent" THEN "Provisioning" ELSE @]
Deleted(o) == [region EXCEPT ![o] = "Absent"]

RegionAfterPatch(o, res) == IF IsOk(res) THEN {Patched(o)} ELSE {region, Patched(o)}
RegionAfterDelete(o, res) == IF IsOk(res) THEN {Deleted(o)} ELSE {region, Deleted(o)}

\* the environment of organization o comes up
BackendReady ==
    /\ \E o \in Orgs :
        /\ region[o] = "Provisioning"
        /\ region' = [region EXCEPT ![o] = "Ready"]
    /\ UNCHANGED <<locals, other>>

----------------------------------------------------------------------------
(* Retry engine: retry(f, max_attempts, exception_types) *)

\* retry that goes on after a success while budget remains
RetryDecisionNoBreak(n, b, tol, res) ==
    IF IsOk(res) /\ n >= b THEN "return"
    ELSE IF IsFail(res) /\ res.kind \notin tol THEN "propagate"
    ELSE IF n >= b THEN "exhausted"
    ELSE "again"

\* retry that retries on every failure, tolerated or not
RetryDecisionAnyFailure(n, b, tol, res) ==
    IF IsOk(res) THEN "return"
    ELSE IF n >= b THEN "exhausted"
    ELSE "again"

\* retry that allows one attempt more than its budget
RetryDecisionOneMore(n, b, tol, res) ==
    IF IsOk(res) THEN "return"
    ELSE IF res.kind \notin tol THEN "propagate"
    ELSE IF n > b THEN "exhausted"
    ELSE "again"

\* What retry does after its n-th invocation of f answered res, under a budget
\* of b attempts and the tolerated kinds tol.
RetryDecision(n, b, tol, res) ==
    IF IsOk(res) THEN "return"
    ELSE IF res.kind \notin tol THEN "propagate"
    ELSE IF n >= b THEN "exhausted"
    ELSE "again"

\* The failure retry signals when it does not return.
RetryRaised(n, b, tol, res) ==
    IF RetryDecision(n, b, tol, res) = "exhausted" THEN "RetryExhausted"
    ELSE res.kind

\* The state retry leaves behind after one attempt: it returns to `next` (where
\* the caller's outcome so far is ret), stays at its own position to sleep and
\* try again, or raises.
RetryStep(n, b, tol, res, next, ret) ==
    LET d == RetryDecision(n, b, tol, res) IN
    /\ attempt' = n
    /\ failed' = IF IsFail(res) /\ res.kind \in tol THEN failed + 1 ELSE failed
    /\ pc' = CASE d = "return" -> next
               [] d = "again" -> pc
               [] OTHER -> "done"
    /\ outcome' = CASE d = "return" -> ret
                    [] d = "again" -> outcome
                    [] OTHER -> Fail(RetryRaised(n, b, tol, res))

\* A retry sequence begins: no attempt made yet.
RetryBegin(b, tol) ==
    /\ budget' = b
    /\ tolerated' = tol
    /\ attempt' = 0
    /\ failed' = 0

----------------------------------------------------------------------------
(* Names derived from the organization id *)

\* an environment name that leaves the organization out
CreateEnvironmentShared(o) == "environment-" \o "0"

\* delete naming its assignment after another ordinal than create
DeleteEnvironmentAssignmentOrdinal(o) == o \o "-1"

CreateEnvironmentAssignment(o) == o \o "-0"
CreateEnvironment(o) == "environment-" \o CreateEnvironmentAssignment(o)
DeleteEnvironmentAssignment(o) == o \o "-0"
DeleteEnvironment(o) == "environment-" \o DeleteEnvironmentAssignment(o)

\* a resource as the resource store returns it
Resource(type, name, v) == [resource_type |-> type, name |-> name, version |-> v]

----------------------------------------------------------------------------
(* create_environment_assignment *)

\* a PATCH body that takes the image when it is truthy, not when it is given
CreateJsonTruthy(img) ==
    IF img # None /\ img[1] # "" THEN {<<"environmentdImageRef", img[1]>>} ELSE {}

\* the PATCH body: a dict, as its set of <<key, value>> items
CreateJson(img) ==
    IF img # None THEN {<<"environmentdImageRef", img[1]>>} ELSE {}

CallCreate ==
    /\ op = "idle"
    /\ op' = "create"
    /\ pc' = "patch"
    /\ org' \in FreeOrgs
    /\ image' \in Images
    /\ outcome' = Running
    /\ calls' = NoCalls
    /\ lastCall' = NoCall
    /\ UNCHANGED <<budget, tolerated, attempt, failed, env, other, region>>

\* create that goes on to the resource store whatever the PATCH answered
CreatePatchUnchecked ==
    /\ op = "create" /\ pc = "patch"
    /\ \E res \in {Ok(None)} \cup {Fail(k) : k \in HttpFailures} :
        /\ calls' = Bump("patch")
        /\ lastCall' = [fn |-> "patch", path |-> "/api/region",
                        json |-> CreateJson(image), res |-> res]
        /\ region' \in RegionAfterPatch(org, res)
        /\ pc' = "kubectl_get_retry"
        /\ RetryBegin(CreatePollAttempts, {"ResourceNotFound"})
        /\ UNCHANGED outcome
    /\ UNCHANGED <<op, org, image, env, other>>

\* patch(config, base_url, "/api/region", json): once, outside any retry
CreatePatch ==
    /\ op = "create" /\ pc = "patch"
    /\ \E res \in {Ok(None)} \cup {Fail(k) : k \in HttpFailures} :
        /\ calls' = Bump("patch")
        /\ lastCall' = [fn |-> "patch", path |-> "/api/region",
                        json |-> CreateJson(image), res |-> res]
        /\ region' \in RegionAfterPatch(org, res)
        /\ IF IsOk(res)
           THEN /\ pc' = "kubectl_get_retry"
                /\ RetryBegin(CreatePollAttempts, {"ResourceNotFound"})
                /\ UNCHANGED outcome
           ELSE /\ pc' = "done"
                /\ outcome' = Fail(res.kind)
                /\ UNCHANGED <<budget, tolerated, attempt, failed>>
    /\ UNCHANGED <<op, org, image, env, other>>

\* one attempt of kubectl_get_retry(environment_context, None, "environment",
\* environment, 10)
CreatePoll ==
    /\ op = "create" /\ pc = "kubectl_get_retry"
    /\ \E res \in {Ok(Resource("environment", CreateEnvironment(org), v)) : v \in Values}
                  \cup {Fail("ResourceNotFound"), Fail("KubectlError")} :
        /\ calls' = Bump("kubectl_get_retry")
        /\ lastCall' = [fn |-> "kubectl_get_retry", context |-> "environment_context",
                        resource_type |-> "environment",
                        resource_name |-> CreateEnvironment(org), res |-> res]
        /\ RetryStep(attempt + 1, budget, tolerated, res, "kubectl_get", Running)
    /\ UNCHANGED <<op, org, image, budget, tolerated, env, other, region>>

\* create that fetches the environmentassignment again when the fetch fails
CreateFetchRetried ==
    /\ op = "create" /\ pc = "kubectl_get"
    /\ \E res \in {Ok(Resource("environmentassignment",
                               CreateEnvironmentAssignment(org), v)) : v \in Values}
                  \cup {Fail("ResourceNotFound"), Fail("KubectlError")} :
        /\ calls' = Bump("kubectl_get")
        /\ lastCall' = [fn |-> "kubectl_get", context |-> "system_context",
                        resource_type |-> "environmentassignment",
                        resource_name |-> CreateEnvironmentAssignment(org), res |-> res]
        /\ outcome' = IF IsOk(res) \/ Count("kubectl_get") >= 1 THEN res ELSE outcome
        /\ pc' = IF IsOk(res) \/ Count("kubectl_get") >= 1 THEN "done" ELSE pc
    /\ UNCHANGED <<op, org, image, budget, tolerated, attempt, failed, env,
                   other, region>>

\* return kubectl_get(system_context, None, "environmentassignment",
\* environment_assignment): once, outside any retry
CreateFetch ==
    /\ op = "create" /\ pc = "kubectl_get"
    /\ \E res \in {Ok(Resource("environmentassignment",
                               CreateEnvironmentAssignment(org), v)) : v \in Values}
                  \cup {Fail("ResourceNotFound"), Fail("KubectlError")} :
        /\ calls' = Bump("kubectl_get")
        /\ lastCall' = [fn |-> "kubectl_get", context |-> "system_context",
                        resource_type |-> "environmentassignment",
                        resource_name |-> CreateEnvironmentAssignment(org), res |-> res]
        /\ outcome' = res
        /\ pc' = "done"
    /\ UNCHANGED <<op, org, image, budget, tolerated, attempt, failed, env,
                   other, region>>

----------------------------------------------------------------------------
(* wait_for_environmentd *)

\* a split that leaves the separator at the head of the part after it
RECURSIVE SplitKeepingSeparator(_, _)
SplitKeepingSeparator(s, sep) ==
    IF \A i \in 2 .. Len(s) : s[i] # sep THEN <<s>>
    ELSE LET i == CHOOSE j \in 2 .. Len(s) :
                      s[j] = sep /\ \A k \in 2 .. (j - 1) : s[k] # sep
         IN <<SubSeq(s, 1, i - 1)>> \o SplitKeepingSeparator(SubSeq(s, i, Len(s)), sep)

\* str.split(sep) on a string held as its sequence of characters
RECURSIVE Split(_, _)
Split(s, sep) ==
    IF \A i \in 1 .. Len(s) : s[i] # sep THEN <<s>>
    ELSE LET i == CHOOSE j \in 1 .. Len(s) :
                      s[j] = sep /\ \A k \in 1 .. (j - 1) : s[k] # sep
         IN <<SubSeq(s, 1, i - 1)>> \o Split(SubSeq(s, i + 1, Len(s)), sep)

Digit == [c \in {"0", "1", "2", "3", "4", "5", "6", "7", "8", "9"} |->
            CASE c = "0" -> 0 [] c = "1" -> 1 [] c = "2" -> 2 [] c = "3" -> 3
              [] c = "4" -> 4 [] c = "5" -> 5 [] c = "6" -> 6 [] c = "7" -> 7
              [] c = "8" -> 8 [] c = "9" -> 9]

\* int(s) is defined on the digit strings (signs, blanks and underscores, which
\* int also accepts, do not occur in the addresses of the model)
IsInt(s) == Len(s) > 0 /\ \A i \in 1 .. Len(s) : s[i] \in DOMAIN Digit

RECURSIVE ToInt(_)
ToInt(s) ==
    IF Len(s) = 0 THEN 0
    ELSE 10 * ToInt(SubSeq(s, 1, Len(s) - 1)) + Digit[s[Len(s)]]

\* values of regionInfo.sqlAddress, as sequences of characters
Addresses == {
    <<"h", ":", "6", "8">>,
    <<"d", "b", ":", "7">>,
    <<"h", "6", "8">>,
    <<"h", ":", "x">>,
    <<"h", ":", "6", ":", "8">>,
    <<>> }

RegionInfos == [resolvable : {None, Some(FALSE), Some(TRUE)},
                sqlAddress : {None} \cup {Some(a) : a \in Addresses}]

\* bodies of a 2xx answer to GET /api/region
Payloads == [regionInfo : {None} \cup {Some(r) : r \in RegionInfos}]

\* resolvable tested for presence, not for truth
ResolvablePresent(r) == r.resolvable # None

\* truthiness of the three values get_environment asserts
DictTruthy(r) == r.resolvable # None \/ r.sqlAddress # None
ResolvableTruthy(r) == r.resolvable = Some(TRUE)
SqlAddressTruthy(r) == r.sqlAddress # None /\ r.sqlAddress # Some(<<>>)

\* get_environment that reports a failed get() as one more not-ready answer
GetEnvironmentSwallowing(response) ==
    IF IsFail(response) THEN Fail("AssertionError")
    ELSE LET region_info == response.val.regionInfo IN
         IF /\ region_info # None
            /\ DictTruthy(region_info[1])
            /\ ResolvableTruthy(region_info[1])
            /\ SqlAddressTruthy(region_info[1])
         THEN response
         ELSE Fail("AssertionError")

\* get_environment, given the answer of get(): the response, an
\* AssertionError, or the failure of get() itself
GetEnvironment(response) ==
    IF IsFail(response) THEN response
    ELSE LET region_info == response.val.regionInfo IN
         IF /\ region_info # None
            /\ DictTruthy(region_info[1])
            /\ ResolvableTruthy(region_info[1])
            /\ SqlAddressTruthy(region_info[1])
         THEN response
         ELSE Fail("AssertionError")

CallWait ==
    /\ op = "idle"
    /\ op' = "wait"
    /\ pc' = "retry_get_environment"
    /\ org' \in FreeOrgs
    /\ RetryBegin(WaitAttempts, {"AssertionError"})
    /\ outcome' = Running
    /\ calls' = NoCalls
    /\ lastCall' = NoCall
    /\ UNCHANGED <<image, env, other, region>>

\* a wait that PATCHes the region again whenever it is answered not ready
WaitGetRepatching ==
    /\ op = "wait" /\ pc = "retry_get_environment"
    /\ \E response \in {Ok(p) : p \in Payloads} \cup {Fail(k) : k \in HttpFailures} :
        LET res == GetEnvironment(response) IN
        /\ calls' = IF res = Fail("AssertionError")
                    THEN [calls EXCEPT !["get"] = @ + 1, !["patch"] = @ + 1]
                    ELSE Bump("get")
        /\ region' = IF res = Fail("AssertionError") THEN Patched(org) ELSE region
        /\ lastCall' = [fn |-> "get", path |-> "/api/region", res |-> response]
        /\ RetryStep(attempt + 1, budget, tolerated, res, "wait_for_connectable", Running)
        /\ env' = IF RetryDecision(attempt + 1, budget, tolerated, res) = "return"
                  THEN Some(res.val) ELSE env
    /\ UNCHANGED <<op, org, image, budget, tolerated, other>>

\* one attempt of retry(get_environment, 600, [AssertionError])
WaitGet ==
    /\ op = "wait" /\ pc = "retry_get_environment"
    /\ \E response \in {Ok(p) : p \in Payloads} \cup {Fail(k) : k \in HttpFailures} :
        LET res == GetEnvironment(response) IN
        /\ calls' = Bump("get")
        /\ lastCall' = [fn |-> "get", path |-> "/api/region", res |-> response]
        /\ RetryStep(attempt + 1, budget, tolerated, res, "wait_for_connectable", Running)
        /\ env' = IF RetryDecision(attempt + 1, budget, tolerated, res) = "return"
                  THEN Some(res.val) ELSE env
    /\ UNCHANGED <<op, org, image, budget, tolerated, other, region>>

\* lines 71-74: split the address, probe it, return environment_json
WaitConnect ==
    /\ op = "wait" /\ pc = "wait_for_connectable"
    /\ LET pgwire_url == env[1].regionInfo[1].sqlAddress[1]
           parts == Split(pgwire_url, ":")
       IN IF Len(parts) # 2 \/ ~IsInt(parts[Len(parts)])
          THEN /\ outcome' = Fail("ValueError")
               /\ UNCHANGED <<calls, lastCall>>
          ELSE \E res \in {Ok(None), Fail("ConnectError")} :
               /\ calls' = Bump("wait_for_connectable")
               /\ lastCall' = [fn |-> "wait_for_connectable",
                               address |-> <<parts[1], ToInt(parts[2])>>,
                               timeout |-> ConnectTimeout, res |-> res]
               /\ outcome' = IF IsOk(res) THEN Ok(env[1]) ELSE res
    /\ pc' = "done"
    /\ UNCHANGED <<op, org, image, budget, tolerated, attempt, failed, env,
                   other, region>>

----------------------------------------------------------------------------
(* delete_environment_assignment *)

\* delete that also retries the DELETE on transport failures
CallDeleteTolerant ==
    /\ op = "idle"
    /\ op' = "delete"
    /\ pc' = "retry_delete_environment"
    /\ org' \in FreeOrgs
    /\ RetryBegin(DeleteAttempts, HttpFailures)
    /\ outcome' = Running
    /\ calls' = NoCalls
    /\ lastCall' = NoCall
    /\ UNCHANGED <<image, env, other, region>>

CallDelete ==
    /\ op = "idle"
    /\ op' = "delete"
    /\ pc' = "retry_delete_environment"
    /\ org' \in FreeOrgs
    /\ RetryBegin(DeleteAttempts, {"HTTPError"})
    /\ outcome' = Running
    /\ calls' = NoCalls
    /\ lastCall' = NoCall
    /\ UNCHANGED <<image, env, other, region>>

\* delete that goes on to the absence checks when the DELETE sequence fails
DeleteAttemptBestEffort ==
    /\ op = "delete" /\ pc = "retry_delete_environment"
    /\ \E res \in {Ok(None)} \cup {Fail(k) : k \in HttpFailures} :
        /\ calls' = Bump("delete")
        /\ lastCall' = [fn |-> "delete", path |-> "/api/region",
                        timeout |-> DeleteTimeout, res |-> res]
        /\ region' \in RegionAfterDelete(org, res)
        /\ attempt' = attempt + 1
        /\ failed' = IF IsFail(res) /\ res.kind \in tolerated THEN failed + 1 ELSE failed
        /\ pc' = IF RetryDecision(attempt + 1, budget, tolerated, res) = "again"
                 THEN pc ELSE "assert_namespace"
        /\ outcome' = Running
    /\ UNCHANGED <<op, org, image, budget, tolerated, env, other>>

\* one attempt of retry(delete_environment, 10, [requests.exceptions.HTTPError])
DeleteAttempt ==
    /\ op = "delete" /\ pc = "retry_delete_environment"
    /\ \E res \in {Ok(None)} \cup {Fail(k) : k \in HttpFailures} :
        /\ calls' = Bump("delete")
        /\ lastCall' = [fn |-> "delete", path |-> "/api/region",
                        timeout |-> DeleteTimeout, res |-> res]
        /\ region' \in RegionAfterDelete(org, res)
        /\ RetryStep(attempt + 1, budget, tolerated, res, "assert_namespace", Running)
    /\ UNCHANGED <<op, org, image, budget, tolerated, env, other>>

\* an absence check without its assert
AssertAbsentUnchecked(context, type, name, next) ==
    \E found \in {None} \cup {Some(Resource(type, name, v)) : v \in Values} :
        /\ calls' = Bump("kubectl_get_or_none")
        /\ lastCall' = [fn |-> "kubectl_get_or_none", context |-> context,
                        resource_type |-> type, resource_name |-> name,
                        res |-> Ok(found)]
        /\ pc' = next
        /\ outcome' = IF next = "done" THEN Ok(None) ELSE outcome

\* an absence check that asks once more before it gives up
AssertAbsentRetried(context, type, name, next) ==
    \E found \in {None} \cup {Some(Resource(type, name, v)) : v \in Values} :
        /\ calls' = Bump("kubectl_get_or_none")
        /\ lastCall' = [fn |-> "kubectl_get_or_none", context |-> context,
                        resource_type |-> type, resource_name |-> name,
                        res |-> Ok(found)]
        /\ IF found = None
           THEN /\ pc' = next
                /\ outcome' = IF next = "done" THEN Ok(None) ELSE outcome
           ELSE IF lastCall.fn = "kubectl_get_or_none" /\ lastCall.resource_type = type
           THEN /\ pc' = "done"
                /\ outcome' = Fail("AssertionError")
           ELSE /\ pc' = pc
                /\ outcome' = outcome

\* assert kubectl_get_or_none(context, None, type, name) is None
AssertAbsent(context, type, name, next) ==
    \E found \in {None} \cup {Some(Resource(type, name, v)) : v \in Values} :
        /\ calls' = Bump("kubectl_get_or_none")
        /\ lastCall' = [fn |-> "kubectl_get_or_none", context |-> context,
                        resource_type |-> type, resource_name |-> name,
                        res |-> Ok(found)]
        /\ IF found = None
           THEN /\ pc' = next
                /\ outcome' = IF next = "done" THEN Ok(None) ELSE outcome
           ELSE /\ pc' = "done"
                /\ outcome' = Fail("AssertionError")

DeleteAssertNamespace ==
    /\ op = "delete" /\ pc = "assert_namespace"
    /\ AssertAbsent("environment_context", "namespace", DeleteEnvironment(org),
                    "assert_environment")
    /\ UNCHANGED <<op, org, image, budget, tolerated, attempt, failed, env,
                   other, region>>

DeleteAssertEnvironment ==
    /\ op = "delete" /\ pc = "assert_environment"
    /\ AssertAbsent("environment_context", "environment", DeleteEnvironment(org),
                    "assert_environmentassignment")
    /\ UNCHANGED <<op, org, image, budget, tolerated, attempt, failed, env,
                   other, region>>

DeleteAssertEnvironmentAssignment ==
    /\ op = "delete" /\ pc = "assert_environmentassignment"
    /\ AssertAbsent("system_context", "environmentassignment",
                    DeleteEnvironmentAssignment(org), "done")
    /\ UNCHANGED <<op, org, image, budget, tolerated, attempt, failed, env,
                   other, region>>

----------------------------------------------------------------------------
(* retry on its own: f is an arbitrary operation *)

CallRetry ==
    /\ op = "idle"
    /\ op' = "retry"
    /\ pc' = "f"
    /\ \E b \in 1 .. MaxBudget, tol \in SUBSET Kinds : RetryBegin(b, tol)
    /\ outcome' = Running
    /\ calls' = NoCalls
    /\ lastCall' = NoCall
    /\ UNCHANGED <<org, image, env, other, region>>

\* one attempt of retry(f, budget, tolerated)
RetryAttempt ==
    /\ op = "retry" /\ pc = "f"
    /\ \E res \in {Ok(v) : v \in Values} \cup {Fail(k) : k \in Kinds} :
        /\ calls' = Bump("f")
        /\ lastCall' = [fn |-> "f", res |-> res]
        /\ RetryStep(attempt + 1, budget, tolerated, res, "done", res)
    /\ UNCHANGED <<op, org, image, budget, tolerated, env, other, region>>

----------------------------------------------------------------------------
(* The harness: operations are invoked one after the other *)

Idle ==
    /\ op = "idle"
    /\ pc = "idle"
    /\ org = "org1"
    /\ image = None
    /\ budget = 0
    /\ tolerated = {}
    /\ attempt = 0
    /\ failed = 0
    /\ env = None
    /\ outcome = Running
    /\ calls = NoCalls
    /\ lastCall = NoCall

Init ==
    /\ Idle
    /\ other = IdleLocals
    /\ region = [o \in Orgs |-> "Absent"]

\* the operation has returned or raised; the caller goes on
Return ==
    /\ op # "idle" /\ pc = "done"
    /\ op' = "idle"
    /\ pc' = "idle"
    /\ org' = "org1"
    /\ image' = None
    /\ budget' = 0
    /\ tolerated' = {}
    /\ attempt' = 0
    /\ failed' = 0
    /\ env' = None
    /\ outcome' = Running
    /\ calls' = NoCalls
    /\ lastCall' = NoCall
    /\ UNCHANGED <<other, region>>

Next ==
    \/ CallCreate \/ CreatePatch \/ CreatePoll \/ CreateFetch
    \/ CallWait \/ WaitGet \/ WaitConnect
    \/ CallDelete \/ DeleteAttempt
    \/ DeleteAssertNamespace \/ DeleteAssertEnvironment
    \/ DeleteAssertEnvironmentAssignment
    \/ CallRetry \/ RetryAttempt
    \/ Return
    \/ BackendReady

Spec == Init /\ [][Next]_vars

----------------------------------------------------------------------------
(* Two invocations at a time, for different organizations: either one takes
   the next step.  Each has its own locals; they share the region API. *)

\* the invocation that was waiting goes on, the one that was running waits
Switch ==
    /\ op # "idle" \/ other[1] # "idle"
    /\ other' = locals
    /\ op' = other[1]
    /\ pc' = other[2]
    /\ org' = other[3]
    /\ image' = other[4]
    /\ budget' = other[5]
    /\ tolerated' = other[6]
    /\ attempt' = other[7]
    /\ failed' = other[8]
    /\ env' = other[9]
    /\ outcome' = other[10]
    /\ calls' = other[11]
    /\ lastCall' = other[12]
    /\ UNCHANGED region

ConcNext ==
    \/ CallCreate \/ CreatePatch \/ CreateFetch
    \/ CallWait \/ WaitConnect
    \/ CallDelete
    \/ DeleteAssertNamespace \/ DeleteAssertEnvironment
    \/ DeleteAssertEnvironmentAssignment
    \/ (attempt < ConcMaxAttempts /\ CreatePoll)
    \/ (attempt < ConcMaxAttempts /\ WaitGet)
    \/ (attempt < ConcMaxAttempts /\ DeleteAttempt)
    \/ Return
    \/ BackendReady
    \/ Switch

ConcSpec == Init /\ [][ConcNext]_vars

----------------------------------------------------------------------------
(* Properties *)

\* C1: when an attempt of a retry sequence succeeds after k tolerated failures
\* (k < budget), retry is over, its result is the value of that attempt, and
\* the operation has been invoked exactly k + 1 times.
C1_RetryReturnsFirstSuccess ==
    (op = "retry" /\ lastCall.fn = "f" /\ IsOk(lastCall.res)) =>
        /\ pc = "done"
        /\ outcome = Ok(lastCall.res.val)
        /\ failed < budget
        /\ Count("f") = failed + 1

\* a success on the last attempt the budget allows, after two tolerated failures
C1_Witness ==
    /\ op = "retry" /\ pc = "done" /\ budget = 3
    /\ failed = 2 /\ Count("f") = 3
    /\ outcome = Ok(2)

\* C2: when an attempt fails with a kind outside the tolerated set, retry is
\* over at that attempt and raises that very failure, whatever budget remains;
\* this holds of retry on its own and of the DELETE sequence of
\* delete_environment_assignment.
C2_NonToleratedPropagates ==
    /\ (op = "retry" /\ lastCall.fn = "f" /\ IsFail(lastCall.res)
            /\ lastCall.res.kind \notin tolerated) =>
        /\ pc = "done"
        /\ outcome = Fail(lastCall.res.kind)
        /\ Count("f") = failed + 1
    /\ (op = "delete" /\ lastCall.fn = "delete" /\ IsFail(lastCall.res)
            /\ lastCall.res.kind # "HTTPError") =>
        /\ pc = "done"
        /\ outcome = Fail(lastCall.res.kind)
        /\ Count("delete") = failed + 1

\* a non-tolerated failure on the first of three attempts
C2_Witness ==
    /\ op = "retry" /\ pc = "done" /\ budget = 3
    /\ Count("f") = 1
    /\ tolerated = {"AssertionError"}
    /\ outcome = Fail("ValueError")

\* C3: while every attempt so far failed with a tolerated kind, retry goes on
\* below its budget N, and at the N-th such failure it raises RetryExhausted,
\* after exactly N invocations.
C3_ExhaustedAfterBudget ==
    (op = "retry" /\ attempt >= 1 /\ failed = attempt) =>
        /\ attempt <= budget
        /\ attempt < budget => (pc = "f" /\ outcome = Running)
        /\ attempt = budget =>
            /\ pc = "done"
            /\ outcome = Fail("RetryExhausted")
            /\ Count("f") = budget

\* three tolerated failures under a budget of three
C3_Witness ==
    /\ op = "retry" /\ budget = 3 /\ failed = 3 /\ Count("f") = 3
    /\ outcome = Fail("RetryExhausted")

\* C4: every resource-store call of create_environment_assignment and of
\* delete_environment_assignment for organization o addresses the
\* environmentassignment named "o-0" and the environment (and namespace) named
\* "environment-o-0".
C4_NamingDeterminism ==
    (lastCall.fn \in {"kubectl_get_retry", "kubectl_get", "kubectl_get_or_none"}) =>
        /\ op \in {"create", "delete"}
        /\ lastCall.resource_type = "environmentassignment" =>
            /\ lastCall.resource_name = org \o "-0"
            /\ org = "org1" => lastCall.resource_name = "org1-0"
        /\ lastCall.resource_type \in {"environment", "namespace"} =>
            /\ lastCall.resource_name = "environment-" \o org \o "-0"
            /\ org = "org1" => lastCall.resource_name = "environment-org1-0"
        /\ lastCall.resource_type \in {"environmentassignment", "environment", "namespace"}

\* delete_environment_assignment for "org1" has checked "org1-0"
C4_Witness ==
    /\ op = "delete" /\ org = "org1"
    /\ lastCall.fn = "kubectl_get_or_none"
    /\ lastCall.resource_type = "environmentassignment"
    /\ lastCall.resource_name = "org1-0"

\* C5: once the PATCH of create_environment_assignment has failed, the
\* operation is over, it raises that failure (HTTPError for a rejected
\* request), and it has made no resource-store call.
C5_PatchRejectedNoPoll ==
    (op = "create" /\ lastCall.fn = "patch" /\ IsFail(lastCall.res)) =>
        /\ pc = "done"
        /\ outcome = Fail(lastCall.res.kind)
        /\ lastCall.res.kind = "HTTPError" => outcome = Fail("HTTPError")
        /\ Count("patch") = 1
        /\ Count("kubectl_get_retry") = 0
        /\ Count("kubectl_get") = 0
        /\ Count("kubectl_get_or_none") = 0

\* the PATCH was rejected and create_environment_assignment raised HTTPError
C5_Witness ==
    /\ op = "create" /\ pc = "done"
    /\ lastCall.fn = "patch" /\ lastCall.res = Fail("HTTPError")
    /\ outcome = Fail("HTTPError")

\* C6: create_environment_assignment makes its calls in this order: the PATCH
\* first and once; each poll after an accepted PATCH or a poll that did not
\* find the environment, fewer than 10 polls having been made; the fetch once,
\* right after a poll that found the environment; and it returns, having made
\* one PATCH, 1 to 10 polls and one fetch, the answer of that fetch.
C6_CreateCallOrder ==
    [][(op = "create" /\ op' = "create") =>
        /\ calls'["patch"] # calls["patch"] =>
            /\ calls = NoCalls
            /\ calls' = [NoCalls EXCEPT !["patch"] = 1]
        /\ calls'["kubectl_get_retry"] # calls["kubectl_get_retry"] =>
            /\ calls["patch"] = 1 /\ calls["kubectl_get"] = 0
            /\ calls["kubectl_get_retry"] < 10
            /\ calls'["kubectl_get_retry"] = calls["kubectl_get_retry"] + 1
            /\ \/ lastCall.fn = "patch" /\ IsOk(lastCall.res)
               \/ lastCall.fn = "kubectl_get_retry"
                    /\ lastCall.res = Fail("ResourceNotFound")
        /\ calls'["kubectl_get"] # calls["kubectl_get"] =>
            /\ calls["kubectl_get"] = 0 /\ calls'["kubectl_get"] = 1
            /\ lastCall.fn = "kubectl_get_retry" /\ IsOk(lastCall.res)
        /\ (IsOk(outcome') /\ ~IsOk(outcome)) =>
            /\ pc' = "done"
            /\ lastCall'.fn = "kubectl_get"
            /\ outcome' = lastCall'.res
            /\ calls'["patch"] = 1
            /\ calls'["kubectl_get_retry"] \in 1 .. 10
            /\ calls'["kubectl_get"] = 1
        /\ calls'["kubectl_get_or_none"] = 0 /\ calls'["get"] = 0
        /\ calls'["delete"] = 0 /\ calls'["wait_for_connectable"] = 0
    ]_vars

\* create_environment_assignment returned the fetched resource after the
\* environment was found on the tenth poll
C6_Witness ==
    /\ op = "create" /\ pc = "done"
    /\ Count("patch") = 1 /\ Count("kubectl_get_retry") = 10 /\ Count("kubectl_get") = 1
    /\ outcome = Ok(Resource("environmentassignment", "acme-0", 2))

\* C7: when none of the 10 polls of create_environment_assignment has found
\* the environment, the operation is over and has failed (not found, or retries
\* exhausted), with one PATCH made and no fetch.
C7_PollExhaustedNoFetch ==
    (op = "create" /\ Count("kubectl_get_retry") = 10 /\ failed = 10) =>
        /\ pc = "done"
        /\ IsFail(outcome)
        /\ outcome.kind \in {"ResourceNotFound", "RetryExhausted"}
        /\ Count("patch") = 1
        /\ Count("kubectl_get") = 0

\* ten polls, none of which found the environment
C7_Witness ==
    /\ op = "create" /\ pc = "done" /\ IsFail(outcome)
    /\ Count("kubectl_get_retry") = 10 /\ failed = 10
    /\ lastCall.fn = "kubectl_get_retry" /\ lastCall.res = Fail("ResourceNotFound")

\* an address of the shape "host:port": one ':' and digits after it
HostPortShaped(a) ==
    \E i \in 1 .. Len(a) :
        /\ a[i] = ":"
        /\ i < Len(a)
        /\ \A j \in 1 .. Len(a) : j # i => a[j] # ":"
        /\ \A j \in (i + 1) .. Len(a) :
              a[j] \in {"0", "1", "2", "3", "4", "5", "6", "7", "8", "9"}

\* the <<host, port>> a probed address stands for, for the addresses
\* "h:68" and "db:7"
ExpectedProbe(a) ==
    IF a = <<"h", ":", "6", "8">> THEN <<<<"h">>, 68>> ELSE <<<<"d", "b">>, 7>>

\* C8: in wait_for_environmentd, the first ready answer of the GET, after k
\* not-ready ones, ends the polling at k + 1 GETs and is kept as the payload
\* (the operation raising ValueError, unprobed, only for an sqlAddress that is
\* not "host:port");
\* once the operation is over for a payload whose sqlAddress is "host:port",
\* it has probed exactly once, the host and port of that payload's address,
\* and what it returns when the probe succeeds is that payload.
C8_ReadyThenProbe ==
    /\ (op = "wait" /\ lastCall.fn = "get" /\ IsOk(GetEnvironment(lastCall.res))) =>
        /\ \/ pc = "wait_for_connectable" /\ outcome = Running
           \/ /\ pc = "done" /\ outcome = Fail("ValueError")
              /\ ~HostPortShaped(lastCall.res.val.regionInfo[1].sqlAddress[1])
        /\ env = Some(lastCall.res.val)
        /\ Count("get") = failed + 1
        /\ Count("wait_for_connectable") = 0
    /\ (op = "wait" /\ env # None) =>
        /\ pc \in {"wait_for_connectable", "done"}
        /\ Count("get") = failed + 1
        /\ failed < 600
    /\ (op = "wait" /\ pc = "done" /\ env # None
            /\ HostPortShaped(env[1].regionInfo[1].sqlAddress[1])) =>
        /\ Count("wait_for_connectable") = 1
        /\ lastCall.fn = "wait_for_connectable"
        /\ lastCall.address = ExpectedProbe(env[1].regionInfo[1].sqlAddress[1])
        /\ outcome = IF IsOk(lastCall.res) THEN Ok(env[1]) ELSE lastCall.res

\* two not-ready answers, then "h:68" reported resolvable, probed and returned
C8_Witness ==
    /\ op = "wait" /\ pc = "done" /\ failed = 2 /\ Count("get") = 3
    /\ lastCall.fn = "wait_for_connectable" /\ lastCall.address = <<<<"h">>, 68>>
    /\ outcome = Ok([regionInfo |-> Some([resolvable |-> Some(TRUE),
                                         sqlAddress |-> Some(<<"h", ":", "6", "8">>)])])

\* C9: what wait_for_environmentd returns is a payload answered by a GET in
\* which regionInfo is present, resolvable is true and sqlAddress is present,
\* and the connectivity probe made after it, to that address, succeeded.
C9_BothReadinessSignals ==
    (op = "wait" /\ IsOk(outcome)) =>
        /\ outcome.val \in Payloads
        /\ outcome.val.regionInfo # None
        /\ outcome.val.regionInfo[1].resolvable = Some(TRUE)
        /\ outcome.val.regionInfo[1].sqlAddress # None
        /\ env = Some(outcome.val)
        /\ Count("get") >= 1
        /\ Count("wait_for_connectable") = 1
        /\ lastCall.fn = "wait_for_connectable"
        /\ IsOk(lastCall.res)
        /\ HostPortShaped(outcome.val.regionInfo[1].sqlAddress[1])
        /\ lastCall.address = ExpectedProbe(outcome.val.regionInfo[1].sqlAddress[1])

\* wait_for_environmentd returned after a first GET that was ready
C9_Witness ==
    /\ op = "wait" /\ pc = "done" /\ IsOk(outcome)
    /\ Count("get") = 1 /\ Count("wait_for_connectable") = 1

\* C10: when all 600 GETs of wait_for_environmentd were not ready, the
\* operation is over and raises RetryExhausted; and whenever
\* wait_for_environmentd fails, the failure is not the AssertionError of a
\* not-ready answer.
C10_NotReadyNeverSurfaces ==
    /\ (op = "wait" /\ failed = 600) =>
        /\ pc = "done"
        /\ outcome = Fail("RetryExhausted")
        /\ Count("get") = 600
        /\ Count("wait_for_connectable") = 0
    /\ (op = "wait" /\ failed < 600 /\ failed = Count("get")) =>
        /\ pc = "retry_get_environment"
        /\ outcome = Running
    /\ (op = "wait" /\ IsFail(outcome)) => outcome.kind # "AssertionError"

\* 600 GETs, each answered not ready
C10_Witness ==
    /\ op = "wait" /\ pc = "done"
    /\ failed = 600 /\ Count("get") = 600
    /\ outcome = Fail("RetryExhausted")

\* C11: when the GET of wait_for_environmentd itself fails (HTTPError, a
\* transport failure), the operation is over at that attempt and raises that
\* very failure, with no further GET and no connectivity probe.
C11_GetFailurePropagates ==
    (op = "wait" /\ lastCall.fn = "get" /\ IsFail(lastCall.res)) =>
        /\ pc = "done"
        /\ outcome = lastCall.res
        /\ outcome.kind \in HttpFailures
        /\ Count("get") = failed + 1
        /\ attempt = Count("get")
        /\ Count("wait_for_connectable") = 0

\* the third GET failed with HTTPError after two not-ready answers
C11_Witness ==
    /\ op = "wait" /\ pc = "done"
    /\ failed = 2 /\ Count("get") = 3
    /\ lastCall.fn = "get" /\ lastCall.res = Fail("HTTPError")
    /\ outcome = Fail("HTTPError")

\* C12 as stated: a DELETE that fails, by its status or in transport, on fewer
\* than 10 attempts is followed by another attempt, and the operation fails in
\* the DELETE sequence only when all 10 attempts have failed.
C12_AnyHttpFailureRetried ==
    /\ (op = "delete" /\ lastCall.fn = "delete" /\ IsFail(lastCall.res)
            /\ Count("delete") < 10) =>
        (pc = "retry_delete_environment" /\ outcome = Running)
    /\ (op = "delete" /\ IsFail(outcome) /\ Count("kubectl_get_or_none") = 0) =>
        Count("delete") = 10

\* C12, amended: a DELETE that fails with HTTPError on fewer than 10 attempts
\* is followed by another attempt; a DELETE that fails in another way, such as
\* a transport timeout, ends the operation at once with that failure; after
\* ten HTTPError failures no further DELETE is made and the operation fails.
C12_HttpErrorRetried ==
    /\ (op = "delete" /\ lastCall.fn = "delete"
            /\ lastCall.res = Fail("HTTPError") /\ Count("delete") < 10) =>
        (pc = "retry_delete_environment" /\ outcome = Running)
    /\ (op = "delete" /\ lastCall.fn = "delete" /\ IsFail(lastCall.res)
            /\ lastCall.res.kind # "HTTPError") =>
        (pc = "done" /\ outcome = lastCall.res)
    /\ (op = "delete" /\ failed = 10) =>
        /\ pc = "done"
        /\ IsFail(outcome)
        /\ Count("delete") = 10
        /\ Count("kubectl_get_or_none") = 0
    /\ op = "delete" => (Count("delete") <= 10 /\ Count("delete") = attempt)

\* ten DELETEs, each answered with HTTPError
C12_Witness ==
    /\ op = "delete" /\ pc = "done" /\ IsFail(outcome)
    /\ failed = 10 /\ Count("delete") = 10
    /\ lastCall.res = Fail("HTTPError")

\* the resource types delete_environment_assignment checks, in its order
AbsenceChecks == <<"namespace", "environment", "environmentassignment">>

\* the position of delete_environment_assignment before its n-th absence check
AbsenceCheckAt(n) ==
    <<"assert_namespace", "assert_environment", "assert_environmentassignment",
      "done">>[n]

\* C13: each absence check of delete_environment_assignment is made after a
\* DELETE that succeeded; a check that finds its resource ends the operation
\* with AssertionError, a check that finds none lets it go on; and the
\* operation returns only from the third check, namespace, environment and
\* environmentassignment each having been observed absent.
C13_ReturnsOnlyIfAllAbsent ==
    [][(op = "delete" /\ op' = "delete") =>
        /\ calls'["kubectl_get_or_none"] # calls["kubectl_get_or_none"] =>
            LET n == calls'["kubectl_get_or_none"] IN
            /\ n \in 1 .. 3
            /\ calls["kubectl_get_or_none"] = n - 1
            /\ pc = AbsenceCheckAt(n)
            /\ calls["delete"] = failed + 1
            /\ lastCall'.fn = "kubectl_get_or_none"
            /\ lastCall'.resource_type = AbsenceChecks[n]
            /\ IF lastCall'.res.val = None
               THEN /\ pc' = AbsenceCheckAt(n + 1)
                    /\ outcome' = IF n = 3 THEN Ok(None) ELSE Running
               ELSE /\ pc' = "done"
                    /\ outcome' = Fail("AssertionError")
        /\ IsOk(outcome') =>
            /\ pc' = "done"
            /\ calls'["kubectl_get_or_none"] = 3
            /\ lastCall'.fn = "kubectl_get_or_none"
            /\ lastCall'.resource_type = "environmentassignment"
            /\ lastCall'.res = Ok(None)
    ]_vars

\* the DELETE succeeded, namespace and environment were absent, and the
\* environmentassignment was still found
C13_Witness ==
    /\ op = "delete" /\ pc = "done"
    /\ Count("delete") = 1 /\ Count("kubectl_get_or_none") = 3
    /\ lastCall.resource_type = "environmentassignment"
    /\ lastCall.res.val # None
    /\ outcome = Fail("AssertionError")

\* C15: the n-th absence check of delete_environment_assignment is of the n-th
\* of namespace, environment, environmentassignment, so each is queried at
\* most once; a check that finds its resource ends the operation with
\* AssertionError, after which it makes no call; and no DELETE is made once a
\* check has been made.
C15_AssertionNeverRetried ==
    /\ [](op = "delete" =>
            /\ Count("kubectl_get_or_none") <= 3
            /\ lastCall.fn = "kubectl_get_or_none" =>
                /\ lastCall.resource_type = AbsenceChecks[Count("kubectl_get_or_none")]
                /\ lastCall.res.val # None =>
                    (pc = "done" /\ outcome = Fail("AssertionError")))
    /\ [][(op = "delete" /\ op' = "delete") =>
            /\ outcome = Fail("AssertionError") => calls' = calls
            /\ calls["kubectl_get_or_none"] > 0 => calls'["delete"] = calls["delete"]
       ]_vars

\* the namespace was found: one check made, AssertionError raised
C15_Witness ==
    /\ op = "delete" /\ pc = "done"
    /\ Count("kubectl_get_or_none") = 1
    /\ lastCall.resource_type = "namespace" /\ lastCall.res.val # None
    /\ outcome = Fail("AssertionError")

\* C16: delete_environment_assignment makes its first absence check right
\* after a DELETE that succeeded; when its DELETE sequence has failed, the
\* operation is over and has made no resource-store call.
C16_NoCheckBeforeDelete ==
    /\ [](op = "delete" =>
            /\ (lastCall.fn = "delete" /\ pc = "done") =>
                /\ IsFail(outcome)
                /\ Count("kubectl_get_or_none") = 0
                /\ Count("kubectl_get") = 0
                /\ Count("kubectl_get_retry") = 0
            /\ IsFail(outcome) /\ outcome.kind # "AssertionError" =>
                Count("kubectl_get_or_none") = 0
            /\ Count("kubectl_get_or_none") > 0 =>
                (Count("delete") >= 1 /\ Count("delete") = failed + 1))
    /\ [][(op = "delete" /\ op' = "delete"
                /\ calls["kubectl_get_or_none"] = 0
                /\ calls'["kubectl_get_or_none"] # 0) =>
            /\ lastCall.fn = "delete"
            /\ IsOk(lastCall.res)
       ]_vars

\* three DELETEs answered HTTPError, the fourth timed out: no check made
C16_Witness ==
    /\ op = "delete" /\ pc = "done"
    /\ failed = 3 /\ Count("delete") = 4
    /\ outcome = Fail("Timeout")
    /\ Count("kubectl_get_or_none") = 0

\* C17: the body of the PATCH of create_environment_assignment holds the
\* field environmentdImageRef, with the image given, exactly when an image is
\* given (be it the empty string), and is the empty object otherwise.
C17_PatchBody ==
    (op = "create" /\ lastCall.fn = "patch") =>
        /\ (image # None) <=> (\E kv \in lastCall.json : kv[1] = "environmentdImageRef")
        /\ image # None => lastCall.json = {<<"environmentdImageRef", image[1]>>}
        /\ image = None => lastCall.json = {}
        /\ lastCall.path = "/api/region"

\* the empty string given as image reference is sent as such
C17_Witness ==
    /\ op = "create" /\ lastCall.fn = "patch"
    /\ image = Some("")
    /\ lastCall.json = {<<"environmentdImageRef", "">>}

\* a step of the operation in progress: one external call answered
OperationStep ==
    \/ CreatePatch \/ CreatePoll \/ CreateFetch
    \/ WaitGet \/ WaitConnect
    \/ DeleteAttempt \/ DeleteAssertNamespace \/ DeleteAssertEnvironment
    \/ DeleteAssertEnvironmentAssignment
    \/ RetryAttempt

\* the most steps the operation in progress can still take
StepsLeft ==
    CASE pc = "patch" -> 1 + 10 + 1
      [] pc = "kubectl_get_retry" -> (10 - attempt) + 1
      [] pc = "kubectl_get" -> 1
      [] pc = "retry_get_environment" -> (600 - attempt) + 1
      [] pc = "wait_for_connectable" -> 1
      [] pc = "retry_delete_environment" -> (10 - attempt) + 3
      [] pc = "assert_namespace" -> 3
      [] pc = "assert_environment" -> 2
      [] pc = "assert_environmentassignment" -> 1
      [] pc = "f" -> budget - attempt
      [] OTHER -> 0

\* failures raised by the collaborators and passed on as they are
CollaboratorFailures == {"Timeout", "ResourceNotFound", "KubectlError", "ConnectError"}

\* C14: an operation in progress can always take a step, given that its
\* external call is answered, and each step leaves it strictly fewer steps to
\* take, within 10 polls, 600 GETs and 10 DELETEs; when it is over it has
\* either returned its whole result (the environmentassignment, the payload,
\* or nothing for delete) or raised HTTPError, RetryExhausted, AssertionError
\* or a collaborator's failure (ValueError only for an sqlAddress that is not
\* "host:port").
C14_Terminates ==
    /\ [](op \in {"create", "wait", "delete"} =>
            /\ StepsLeft >= 0
            /\ pc # "done" => (StepsLeft >= 1 /\ outcome = Running /\ ENABLED OperationStep)
            /\ Count("kubectl_get_retry") <= 10
            /\ Count("get") <= 600
            /\ Count("delete") <= 10
            /\ Count("patch") <= 1 /\ Count("kubectl_get") <= 1
            /\ Count("wait_for_connectable") <= 1 /\ Count("kubectl_get_or_none") <= 3
            /\ pc = "done" =>
                /\ IsOk(outcome) \/ IsFail(outcome)
                /\ IsOk(outcome) =>
                    CASE op = "create" ->
                           outcome.val \in {Resource("environmentassignment", org \o "-0", v) :
                                              v \in Values}
                      [] op = "wait" -> outcome.val \in Payloads /\ env = Some(outcome.val)
                      [] op = "delete" -> outcome.val = None
                /\ IsFail(outcome) =>
                    /\ outcome.kind \in {"HTTPError", "RetryExhausted", "AssertionError",
                                         "ValueError"} \cup CollaboratorFailures
                    /\ outcome.kind = "ValueError" =>
                        /\ op = "wait"
                        /\ ~HostPortShaped(env[1].regionInfo[1].sqlAddress[1]))
    /\ [][(op \in {"create", "wait", "delete"} /\ op' = op /\ locals' # locals) =>
            StepsLeft' < StepsLeft
       ]_vars

\* wait_for_environmentd returned at the end of its budget: ready on GET 600
C14_Witness ==
    /\ op = "wait" /\ pc = "done" /\ IsOk(outcome)
    /\ Count("get") = 600 /\ Count("wait_for_connectable") = 1

\* C19: wait_for_environmentd calls nothing but GET /api/region and, at most
\* once, the connectivity probe: no PATCH, no DELETE, no resource-store query;
\* and none of its steps changes the region API's state of any environment.
C19_WaitOnlyReads ==
    /\ [](op = "wait" =>
            /\ Count("patch") = 0 /\ Count("delete") = 0
            /\ Count("kubectl_get_retry") = 0 /\ Count("kubectl_get") = 0
            /\ Count("kubectl_get_or_none") = 0
            /\ Count("wait_for_connectable") <= 1
            /\ lastCall.fn \in {"none", "get", "wait_for_connectable"}
            /\ lastCall.fn = "get" => lastCall.path = "/api/region"
            /\ Count("wait_for_connectable") = 1 =>
                (pc = "done" /\ lastCall.fn = "wait_for_connectable"))
    /\ [][((op = "wait" \/ op' = "wait") /\ locals' # locals) => region' = region]_vars

\* wait_for_environmentd returned for a ready environment after two not-ready
\* answers
C19_Witness ==
    /\ op = "wait" /\ pc = "done" /\ IsOk(outcome)
    /\ failed = 2 /\ Count("get") = 3 /\ Count("wait_for_connectable") = 1
    /\ region[org] = "Ready"

\* the resource names that belong to organization o
NamesOf(o) == {o \o "-0", "environment-" \o o \o "-0"}

\* C18: with two invocations interleaved for different organizations, a step
\* of one leaves the locals of the other as they are, and leaves its own
\* organization id and image as they are; the resource-store calls of an
\* invocation address names of its own organization and none of the other's;
\* and the region API's state of an organization changes only by a step of the
\* invocation for that organization or by the backend's own progress.
C18_NoInterference ==
    /\ [](/\ (op # "idle" /\ other[1] # "idle") => org # other[3]
          /\ lastCall.fn \in {"kubectl_get_retry", "kubectl_get", "kubectl_get_or_none"} =>
              /\ lastCall.resource_name \in NamesOf(org)
              /\ \A o \in Orgs \ {org} : lastCall.resource_name \notin NamesOf(o)
          /\ other[1] # "idle" /\ other[12].fn \in
                    {"kubectl_get_retry", "kubectl_get", "kubectl_get_or_none"} =>
              /\ other[12].resource_name \in NamesOf(other[3])
              /\ \A o \in Orgs \ {other[3]} : other[12].resource_name \notin NamesOf(o))
    /\ [][/\ (other' = locals /\ locals' = other) \/ other' = other
          /\ (other' = other /\ op # "idle" /\ op' = op) =>
                (org' = org /\ image' = image)
          /\ \A o \in Orgs : region'[o] # region[o] =>
                \/ o = org /\ op # "idle" /\ locals' # locals /\ other' = other
                \/ region[o] = "Provisioning" /\ region'[o] = "Ready" /\ locals' = locals
       ]_vars

\* create for one organization has returned its environmentassignment while
\* delete for the other, begun before it, is in the middle of its checks
C18_Witness ==
    /\ op = "create" /\ pc = "done" /\ IsOk(outcome) /\ org = "acme"
    /\ Count("kubectl_get_retry") = 2
    /\ other[1] = "delete" /\ other[2] = "assert_environment" /\ other[3] = "org1"
    /\ region = [o \in Orgs |-> IF o = "acme" THEN "Provisioning" ELSE "Absent"]

----------------------------------------------------------------------------
(* The lifecycle: a caller runs create_environment_assignment,
   wait_for_environmentd and delete_environment_assignment one after the
   other for one organization, each once the one before has returned,
   against a backend that behaves well. *)

\* polls within which the environment resource appears after an accepted PATCH
MaterializeWithin == 10
\* GETs within which a resolvable sqlAddress is reported
ResolvableWithin == 600

LifecycleCreate == CallCreate

\* the PATCH is accepted
LifecyclePatch ==
    /\ CreatePatch
    /\ IsOk(lastCall'.res)

\* the environment resource is not found yet, MaterializeWithin - 1 times at
\* most, or found
LifecyclePoll ==
    /\ CreatePoll
    /\ \/ IsOk(lastCall'.res)
       \/ lastCall'.res = Fail("ResourceNotFound") /\ attempt + 1 < MaterializeWithin

\* the environmentassignment exists once the environment does
LifecycleFetch ==
    /\ CreateFetch
    /\ IsOk(lastCall'.res)

\* create has returned: the caller goes on to wait_for_environmentd
LifecycleWait ==
    /\ op = "create" /\ pc = "done" /\ IsOk(outcome)
    /\ op' = "wait"
    /\ pc' = "retry_get_environment"
    /\ RetryBegin(WaitAttempts, {"AssertionError"})
    /\ outcome' = Running
    /\ calls' = NoCalls
    /\ lastCall' = NoCall
    /\ UNCHANGED <<org, image, env, other, region>>

\* every GET is answered 2xx: not ready, ResolvableWithin - 1 times at most,
\* or, the environment being Ready, resolvable with an sqlAddress "host:port"
LifecycleGet ==
    /\ WaitGet
    /\ IsOk(lastCall'.res)
    /\ IF IsOk(GetEnvironment(lastCall'.res))
       THEN /\ region[org] = "Ready"
            /\ HostPortShaped(lastCall'.res.val.regionInfo[1].sqlAddress[1])
       ELSE attempt + 1 < ResolvableWithin

\* the endpoint accepts connections
LifecycleConnect ==
    /\ WaitConnect
    /\ IsOk(outcome')

\* wait has returned: the caller goes on to delete_environment_assignment
LifecycleDelete ==
    /\ op = "wait" /\ pc = "done" /\ IsOk(outcome)
    /\ op' = "delete"
    /\ pc' = "retry_delete_environment"
    /\ RetryBegin(DeleteAttempts, {"HTTPError"})
    /\ outcome' = Running
    /\ calls' = NoCalls
    /\ lastCall' = NoCall
    /\ UNCHANGED <<org, image, env, other, region>>

\* the DELETE is accepted, after rejections with a non-2xx status on fewer
\* attempts than delete makes
LifecycleDeleteAttempt ==
    /\ DeleteAttempt
    /\ \/ IsOk(lastCall'.res)
       \/ lastCall'.res = Fail("HTTPError") /\ attempt + 1 < budget

\* namespace, environment and environmentassignment are gone when the
\* accepted DELETE has returned
LifecycleAssertNamespace ==
    /\ DeleteAssertNamespace
    /\ lastCall'.res = Ok(None)

LifecycleAssertEnvironment ==
    /\ DeleteAssertEnvironment
    /\ lastCall'.res = Ok(None)

LifecycleAssertEnvironmentAssignment ==
    /\ DeleteAssertEnvironmentAssignment
    /\ lastCall'.res = Ok(None)

\* the sequence is over, with delete's return or with a call that failed
LifecycleReturn ==
    /\ op = "delete" \/ IsFail(outcome)
    /\ Return

LifecycleNext ==
    \/ LifecycleCreate \/ LifecyclePatch \/ LifecyclePoll \/ LifecycleFetch
    \/ LifecycleWait \/ LifecycleGet \/ LifecycleConnect
    \/ LifecycleDelete \/ LifecycleDeleteAttempt
    \/ LifecycleAssertNamespace \/ LifecycleAssertEnvironment
    \/ LifecycleAssertEnvironmentAssignment
    \/ LifecycleReturn
    \/ BackendReady

\* every call is answered and every retry sleeps a bounded time, so the
\* caller and the backend keep taking steps
LifecycleSpec == Init /\ [][LifecycleNext]_vars /\ WF_vars(LifecycleNext)

\* C20: against a backend that accepts the PATCH, has the environment resource
\* appear within 10 polls and the environmentassignment with it, answers
\* every GET and reports a resolvable "host:port" sqlAddress within 600 GETs,
\* accepts connections, accepts a DELETE (after non-2xx rejections on fewer
\* than 10 attempts at most) and has removed namespace, environment and
\* environmentassignment when that DELETE returns: no call of the sequence
\* create, wait, delete fails, and a sequence that has begun gets to the
\* return of delete_environment_assignment with the environment Absent.
C20_LifecycleConverges ==
    /\ [](pc = "done" => IsOk(outcome))
    /\ (op = "create" /\ pc = "patch") ~>
          (op = "delete" /\ pc = "done" /\ IsOk(outcome) /\ region[org] = "Absent")

\* delete has returned at the end of a sequence in which the environment
\* appeared at the 10th poll, wait returned a payload and the DELETE was
\* accepted at the 10th attempt
C20_Witness ==
    /\ op = "delete" /\ pc = "done" /\ IsOk(outcome)
    /\ image = Some("materialize/environmentd:v1")
    /\ env # None /\ ResolvableTruthy(env[1].regionInfo[1])
    /\ Count("delete") = 10 /\ Count("kubectl_get_or_none") = 3
    /\ region[org] = "Absent"

====
